---- MODULE Spec2Model ----
(***************************************************************************)
(* State-machine model of the CloneDialog component of                     *)
(* src/components/vm/vmCloneDialog.tsx.                                    *)
(*                                                                         *)
(* Strings the code parses or compares (command output, the new VM name,   *)
(* paths, filesystem types) are sequences of one-character strings, so     *)
(* that split(), trim() and concatenation are computed, not assumed.       *)
(* A JavaScript object with optional fields is a sequence of               *)
(* <<key, value>> pairs; {} is <<>>.                                       *)
(***************************************************************************)
EXTENDS Integers, Sequences, FiniteSets, Bags

VARIABLES
    name,             \* prop: the source VM's name
    connectionName,   \* prop: "system" or "session"
    newVmName,        \* useState(name + '-clone')
    inProgress,       \* useState(false)
    virtCloneOutput,  \* useState('')
    error,            \* useState<DialogError>({})
    fsInfo,           \* useState({ hasReflink: false, fsType: '' })
    useReflink,       \* useState(false)
    isCheckingFs,     \* useState(true)
    pc,               \* position of the probe's promise chain
    output,           \* the disk-list output handed to the first .then
    diskPath,         \* local of the first .then callback
    fsOutput,         \* the df output handed to the nested .then
    cmds,             \* the processes the probe has spawned, in order
    clones,           \* bag of the virt-clone processes in flight
    closeCalls,       \* number of Dialogs.close() calls so far
    lastOp            \* what the step just taken did with a clone request

vars == <<name, connectionName, newVmName, inProgress, virtCloneOutput, error,
          fsInfo, useReflink, isCheckingFs, pc, output, diskPath, fsOutput,
          cmds, clones, closeCalls, lastOp>>

uiVars == <<newVmName, inProgress, virtCloneOutput, error>>
probeVars == <<fsInfo, useReflink, isCheckingFs, pc, output, diskPath,
               fsOutput, cmds>>
props == <<name, connectionName>>

-----------------------------------------------------------------------------
(* Bounds *)

MaxInFlight == 2     \* virt-clone processes in flight at once
MaxChunks == 2       \* chunks one virt-clone process streams
MaxLen == 8          \* length of an arbitrary disk-list output

-----------------------------------------------------------------------------
(* Strings *)

NL == "\n"
WhiteSpace == {" ", "\t", "\r", NL}

RECURSIVE FirstIn(_, _, _)
\* smallest index >= i of s whose character is in (or, with inSet FALSE,
\* not in) WhiteSpace; Len(s) + 1 when there is none
FirstIn(s, i, inSet) ==
    IF i > Len(s) THEN Len(s) + 1
    ELSE IF (s[i] \in WhiteSpace) = inSet THEN i
    ELSE FirstIn(s, i + 1, inSet)

RECURSIVE LastNonWs(_, _)
LastNonWs(s, i) ==
    IF i < 1 THEN 0
    ELSE IF s[i] \notin WhiteSpace THEN i
    ELSE LastNonWs(s, i - 1)

\* String.prototype.trim
Trim(s) == SubSeq(s, FirstIn(s, 1, FALSE), LastNonWs(s, Len(s)))

RECURSIVE FirstChar(_, _, _)
FirstChar(s, i, c) ==
    IF i > Len(s) THEN Len(s) + 1
    ELSE IF s[i] = c THEN i
    ELSE FirstChar(s, i + 1, c)

RECURSIVE SplitLines(_)
\* String.prototype.split('\n'): the pieces between separators, empty ones
\* included; the empty string gives one empty piece
SplitLines(s) ==
    LET i == FirstChar(s, 1, NL) IN
    IF i > Len(s) THEN <<s>>
    ELSE <<SubSeq(s, 1, i - 1)>> \o SplitLines(SubSeq(s, i + 1, Len(s)))

RECURSIVE SplitWs(_)
\* String.prototype.split(/\s+/): the pieces between maximal runs of
\* whitespace, leading and trailing empty pieces included
SplitWs(s) ==
    LET i == FirstIn(s, 1, TRUE) IN
    IF i > Len(s) THEN <<s>>
    ELSE <<SubSeq(s, 1, i - 1)>>
         \o SplitWs(SubSeq(s, FirstIn(s, i, FALSE), Len(s)))

DotTest == <<".", "t", "e", "s", "t">>
DashClone == <<"-", "c", "l", "o", "n", "e">>
XFS == <<"x", "f", "s">>
BTRFS == <<"b", "t", "r", "f", "s">>

-----------------------------------------------------------------------------
(* Helpers of the component *)

\* helpers.js isEmpty: the string has no characters
isEmpty(str) == str = <<>>

\* helpers.js isObjectEmpty: the object has no keys
isObjectEmpty(obj) == obj = <<>>

validateParamsUntrimmed(vmName) ==
    IF isEmpty(vmName)
    THEN << <<"name", "Name must not be empty">> >>
    ELSE <<>>

\* function validateParams()
validateParams(vmName) ==
    IF isEmpty(Trim(vmName))
    THEN << <<"name", "Name must not be empty">> >>
    ELSE <<>>

RECURSIVE format(_, _)
\* cockpit.format(template, arg): every $0 of the template becomes arg
format(template, arg) ==
    IF template = <<>> THEN <<>>
    ELSE (IF Head(template) = "$0" THEN arg ELSE <<Head(template)>>)
         \o format(Tail(template), arg)

FailedToClone == <<"Failed to clone VM ", "$0">>

DialogErrorWithoutName(vm) == << <<"dialogError", format(FailedToClone, <<>>)>> >>

\* the object handed to dialogErrorSet when virt-clone fails
DialogErrorOf(vm) == << <<"dialogError", format(FailedToClone, vm)>> >>

\* { superuser: connectionName === "system" ? "try" : false }
ProbeSuperuser(conn) == IF conn = "system" THEN "try" ELSE "false"

CloneSuperuserAlways(conn) == "try"

\* ...(connectionName === "system" ? { superuser: "try" } : { })
CloneSuperuser(conn) == IF conn = "system" THEN "try" ELSE "unset"

\* every argument of a command line is a string: a literal is one token
Lit(token) == <<token>>

\* "qemu:///" + connectionName
Uri(conn) == <<"qemu:///", conn>>

DomblklistCmd(conn, vm) ==
    [argv |-> <<Lit("virsh"), Lit("--connect"), Uri(conn), Lit("domblklist"),
                vm>>,
     superuser |-> ProbeSuperuser(conn), err |-> "unset", status |-> "running"]

DfCmd(conn, path) ==
    [argv |-> <<Lit("df"), Lit("--output=fstype"), path>>,
     superuser |-> ProbeSuperuser(conn), err |-> "unset", status |-> "running"]

CpCmd(conn, path) ==
    [argv |-> <<Lit("cp"), Lit("--reflink=always"), path, path \o DotTest>>,
     superuser |-> ProbeSuperuser(conn), err |-> "message", status |-> "running"]

RmCmd(conn, path) ==
    [argv |-> <<Lit("rm"), Lit("-f"), path \o DotTest>>,
     superuser |-> ProbeSuperuser(conn), err |-> "unset", status |-> "running"]

CloneFlagIgnoresChoice(reflinkChoice, info) ==
    IF info.hasReflink THEN "--reflink" ELSE "--auto-clone"

\* the flag appended to cloneArgs
CloneFlag(reflinkChoice, info) ==
    IF reflinkChoice /\ info.hasReflink THEN "--reflink" ELSE "--auto-clone"

\* cloneArgs as handed to cockpit.spawn
cloneArgs(conn, vm, vmName, reflinkChoice, info) ==
    <<Lit("virt-clone"), Lit("--connect"), Uri(conn), Lit("--original"), vm,
      Lit("--name"), vmName, Lit(CloneFlag(reflinkChoice, info))>>

RECURSIVE ScanLines(_, _)
\* the for loop over lines, from (1-based) index i
ScanLines(lines, i) ==
    IF i > Len(lines) THEN <<>>
    ELSE LET parts == SplitWs(Trim(lines[i])) IN
         IF Len(parts) >= 2 /\ parts[2] # <<>> /\ parts[2] # <<"-">>
         THEN parts[2]
         ELSE ScanLines(lines, i + 1)

FindDiskPathFromHeader(out) == ScanLines(SplitLines(out), 1)

\* diskPath as the first .then computes it: the header line is skipped
FindDiskPath(out) == ScanLines(SplitLines(out), 2)

\* the filesystem type read from the df output, when it has two lines
HasFsType(fsOut) == Len(SplitLines(fsOut)) >= 2
FsTypeOf(fsOut) == Trim(SplitLines(fsOut)[2])

IsCowFsXfsOnly(fsType) == fsType = XFS

\* fsType === 'xfs' || fsType === 'btrfs'
IsCowFs(fsType) == fsType = XFS \/ fsType = BTRFS

\* the k-th chunk a virt-clone process writes; one character stands for
\* its text, a different one for each k
Chunk(k) == <<k>>

\* lastOp: "reject" (onClone refused the request), "cloneOk" (a virt-clone
\* process succeeded), "cloneFail" (one failed; out is all it had written),
\* else "other"
Op(op, out) == [op |-> op, out |-> out]
Other == Op("other", <<>>)

\* the probe's processes after the one awaited has settled with status st
Settled(procs, st) == [procs EXCEPT ![Len(procs)].status = st]

\* the bag of processes with one more, or one fewer, copy of proc
Started(procs, proc) == procs (+) SetToBag({proc})
Exited(procs, proc) == procs (-) SetToBag({proc})

\* the dialog is shown until Dialogs.close() is called
IsOpen == closeCalls = 0

\* the user can act on the dialog once it is rendered and its effect has
\* run, and until it is closed
Interactive == IsOpen /\ pc # "mount"

-----------------------------------------------------------------------------
(* Inputs *)

VmNames == {<<"v", "m">>}
ConnectionNames == {"system", "session"}

\* values the user types into the name field: nothing, a blank, and the
\* default name again
TypedNames == {<<>>, <<" ">>} \cup {vm \o DashClone : vm \in VmNames}

DiskA == <<"/", "a">>
DiskB == <<"/", "b">>
Header == <<"T", " ", "S">>
Rule == <<"-", "-", "-">>
PlaceholderRow == <<" ", "c", " ", "-">>
RowA == <<" ", "v", " ", " ">> \o DiskA
RowB == <<" ", "w", " ">> \o DiskB

\* what virsh domblklist prints: a placeholder row before the disk; no disk
DomblklistOutputs ==
    { Header \o <<NL>> \o Rule \o <<NL>> \o PlaceholderRow \o <<NL>> \o RowA \o <<NL>>,
      Header \o <<NL>> \o Rule \o <<NL, NL>> }

\* more of it, for the probe on its own: two disks; one disk with trailing
\* blanks; a row in place of the header only; a placeholder only; a
\* one-column row; no line break at all; nothing
MoreDomblklistOutputs ==
    DomblklistOutputs \cup
    { Header \o <<NL>> \o Rule \o <<NL>> \o RowB \o <<NL>> \o RowA \o <<NL, NL>>,
      Header \o <<NL>> \o Rule \o <<NL>> \o RowA \o <<" ", "\r", NL, NL>>,
      RowA \o <<NL>> \o Rule \o <<NL>>,
      Header \o <<NL>> \o PlaceholderRow \o <<NL>>,
      Header \o <<NL, " ", "v", " ", NL>>,
      Header,
      <<>> }

EXT4 == <<"e", "x", "t", "4">>
FsHeader == <<"T", "y", "p", "e">>

\* what df --output=fstype prints: xfs; another type; the header alone
DfOutputs ==
    { FsHeader \o <<NL>> \o XFS \o <<NL>>,
      FsHeader \o <<NL>> \o EXT4 \o <<NL>>,
      FsHeader }

\* more of it, for the probe on its own: btrfs; padded xfs; xfs without the
\* final line break; a longer name; upper case; an empty type; the type on
\* the header's line; nothing
MoreDfOutputs ==
    DfOutputs \cup
    { FsHeader \o <<NL>> \o BTRFS \o <<NL>>,
      FsHeader \o <<NL, " ">> \o XFS \o <<" ", NL>>,
      FsHeader \o <<NL>> \o XFS,
      FsHeader \o <<NL>> \o XFS \o <<"2", NL>>,
      FsHeader \o <<NL, "X", "F", "S", NL>>,
      FsHeader \o <<NL, NL>>,
      XFS \o <<NL>>,
      <<>> }

\* the characters of an arbitrary disk-list output
Alphabet == {NL, " ", "-", "a"}

\* every string of at most MaxLen characters of Alphabet
Strings == UNION { [1..n -> Alphabet] : n \in 0..MaxLen }

-----------------------------------------------------------------------------
(* Initial state: the useState defaults, before the effect has run *)

Init ==
    /\ name \in VmNames
    /\ connectionName \in ConnectionNames
    /\ newVmName = name \o DashClone
    /\ inProgress = FALSE
    /\ virtCloneOutput = <<>>
    /\ error = <<>>
    /\ fsInfo = [hasReflink |-> FALSE, fsType |-> <<>>]
    /\ useReflink = FALSE
    /\ isCheckingFs = TRUE
    /\ pc = "mount"
    /\ output = <<>>
    /\ diskPath = <<>>
    /\ fsOutput = <<>>
    /\ cmds = <<>>
    /\ clones = EmptyBag
    /\ closeCalls = 0
    /\ lastOp = Other

-----------------------------------------------------------------------------
(* The filesystem probe: useEffect and its promise chain *)

\* useEffect body: runs once after the first render
ProbeEffect ==
    /\ pc = "mount"
    /\ isCheckingFs' = TRUE
    /\ cmds' = Append(cmds, DomblklistCmd(connectionName, name))
    /\ pc' = "domblklist"
    /\ lastOp' = Other
    /\ UNCHANGED <<props, uiVars, fsInfo, useReflink, output, diskPath,
                   fsOutput, clones, closeCalls>>

\* virsh domblklist succeeded with output out: the first .then, and the
\* .finally when no disk is found
DomblklistOk(out) ==
    /\ pc = "domblklist"
    /\ output' = out
    /\ diskPath' = FindDiskPath(out)
    /\ IF diskPath' # <<>>
       THEN /\ cmds' = Append(Settled(cmds, "ok"),
                              DfCmd(connectionName, diskPath'))
            /\ pc' = "df"
            /\ UNCHANGED isCheckingFs
       ELSE /\ cmds' = Settled(cmds, "ok")
            /\ pc' = "done"
            /\ isCheckingFs' = FALSE
    /\ lastOp' = Other
    /\ UNCHANGED <<props, uiVars, fsInfo, useReflink, fsOutput, clones,
                   closeCalls>>

DomblklistFailWithoutFinally ==
    /\ pc = "domblklist"
    /\ cmds' = Settled(cmds, "failed")
    /\ pc' = "done"
    /\ lastOp' = Other
    /\ UNCHANGED <<props, uiVars, fsInfo, useReflink, isCheckingFs, output,
                   diskPath, fsOutput, clones, closeCalls>>

\* virsh domblklist failed: the outer .catch, then .finally
DomblklistFail ==
    /\ pc = "domblklist"
    /\ cmds' = Settled(cmds, "failed")
    /\ pc' = "done"
    /\ isCheckingFs' = FALSE
    /\ lastOp' = Other
    /\ UNCHANGED <<props, uiVars, fsInfo, useReflink, output, diskPath,
                   fsOutput, clones, closeCalls>>

\* what the df handler records when it starts no trial copy
NoCowInfo(fsType) == [hasReflink |-> FALSE, fsType |-> fsType]

DfOkWithoutReturn(fsOut) ==
    /\ pc = "df"
    /\ fsOutput' = fsOut
    /\ IF HasFsType(fsOut) /\ IsCowFs(FsTypeOf(fsOut))
       THEN /\ cmds' = Append(Settled(cmds, "ok"),
                              CpCmd(connectionName, diskPath))
            /\ pc' = "cp"
            /\ UNCHANGED fsInfo
       ELSE /\ fsInfo' = IF HasFsType(fsOut)
                         THEN NoCowInfo(FsTypeOf(fsOut))
                         ELSE fsInfo
            /\ cmds' = Settled(cmds, "ok")
            /\ pc' = "done"
    /\ isCheckingFs' = FALSE
    /\ lastOp' = Other
    /\ UNCHANGED <<props, uiVars, useReflink, output, diskPath, clones,
                   closeCalls>>

\* df succeeded with output fsOut: the nested .then, and the .finally when
\* no trial copy is started
DfOk(fsOut) ==
    /\ pc = "df"
    /\ fsOutput' = fsOut
    /\ IF HasFsType(fsOut) /\ IsCowFs(FsTypeOf(fsOut))
       THEN /\ cmds' = Append(Settled(cmds, "ok"),
                              CpCmd(connectionName, diskPath))
            /\ pc' = "cp"
            /\ UNCHANGED <<fsInfo, isCheckingFs>>
       ELSE /\ fsInfo' = IF HasFsType(fsOut)
                         THEN NoCowInfo(FsTypeOf(fsOut))
                         ELSE fsInfo
            /\ cmds' = Settled(cmds, "ok")
            /\ pc' = "done"
            /\ isCheckingFs' = FALSE
    /\ lastOp' = Other
    /\ UNCHANGED <<props, uiVars, useReflink, output, diskPath, clones,
                   closeCalls>>

DfFailReportsError ==
    /\ pc = "df"
    /\ cmds' = Settled(cmds, "failed")
    /\ pc' = "done"
    /\ isCheckingFs' = FALSE
    /\ error' = DialogErrorOf(name)
    /\ lastOp' = Other
    /\ UNCHANGED <<props, newVmName, inProgress, virtCloneOutput, fsInfo,
                   useReflink, output, diskPath, fsOutput, clones, closeCalls>>

\* df failed: the nested .catch, then .finally
DfFail ==
    /\ pc = "df"
    /\ cmds' = Settled(cmds, "failed")
    /\ pc' = "done"
    /\ isCheckingFs' = FALSE
    /\ lastOp' = Other
    /\ UNCHANGED <<props, uiVars, fsInfo, useReflink, output, diskPath,
                   fsOutput, clones, closeCalls>>

\* what the handlers attached to the trial copy record
CpOkInfo(fsType) == [hasReflink |-> TRUE, fsType |-> fsType]
CpFailInfoDropsType(fsType) == [hasReflink |-> FALSE, fsType |-> <<>>]
CpFailInfo(fsType) == [hasReflink |-> FALSE, fsType |-> fsType]

\* the processes after the trial copy has succeeded: rm is spawned
AfterCpOk(procs, conn, path) == Append(Settled(procs, "ok"), RmCmd(conn, path))

\* the processes after the trial copy has failed: nothing is spawned
AfterCpFail(procs, conn, path) == Settled(procs, "failed")

\* cp --reflink=always succeeded: its .then, then .finally
CpOk ==
    /\ pc = "cp"
    /\ cmds' = AfterCpOk(cmds, connectionName, diskPath)
    /\ fsInfo' = CpOkInfo(FsTypeOf(fsOutput))
    /\ useReflink' = TRUE
    /\ pc' = "done"
    /\ isCheckingFs' = FALSE
    /\ lastOp' = Other
    /\ UNCHANGED <<props, uiVars, output, diskPath, fsOutput, clones,
                   closeCalls>>

\* cp --reflink=always failed: its .catch, then .finally
CpFail ==
    /\ pc = "cp"
    /\ cmds' = AfterCpFail(cmds, connectionName, diskPath)
    /\ fsInfo' = CpFailInfo(FsTypeOf(fsOutput))
    /\ pc' = "done"
    /\ isCheckingFs' = FALSE
    /\ lastOp' = Other
    /\ UNCHANGED <<props, uiVars, useReflink, output, diskPath, fsOutput,
                   clones, closeCalls>>

\* the rm process is the last one spawned, and nothing awaits it
RmRunning == cmds # <<>> /\ cmds[Len(cmds)].argv[1] = Lit("rm")
                         /\ cmds[Len(cmds)].status = "running"

RmExitSurfacesFailure(st) ==
    /\ RmRunning
    /\ cmds' = Settled(cmds, st)
    /\ fsInfo' = IF st = "failed" THEN CpFailInfo(fsInfo.fsType) ELSE fsInfo
    /\ lastOp' = Other
    /\ UNCHANGED <<props, uiVars, useReflink, isCheckingFs, pc, output,
                   diskPath, fsOutput, clones, closeCalls>>

\* the rm process exits with status st; no handler is attached to it
RmExit(st) ==
    /\ RmRunning
    /\ cmds' = Settled(cmds, st)
    /\ lastOp' = Other
    /\ UNCHANGED <<props, uiVars, fsInfo, useReflink, isCheckingFs, pc,
                   output, diskPath, fsOutput, clones, closeCalls>>

-----------------------------------------------------------------------------
(* The form *)

\* TextInput onChange: setNewVmName(value)
SetNewVmName(value) ==
    /\ Interactive
    /\ newVmName' = value
    /\ lastOp' = Other
    /\ UNCHANGED <<props, inProgress, virtCloneOutput, error, probeVars,
                   clones, closeCalls>>

CheckboxShownAlways == TRUE

\* the reflink Checkbox is rendered once the probe is over and found support
CheckboxShown == ~isCheckingFs /\ fsInfo.hasReflink

\* Checkbox onChange: setUseReflink(checked)
ToggleReflink(checked) ==
    /\ Interactive
    /\ CheckboxShown
    /\ useReflink' = checked
    /\ lastOp' = Other
    /\ UNCHANGED <<props, uiVars, fsInfo, isCheckingFs, pc, output, diskPath,
                   fsOutput, cmds, clones, closeCalls>>

\* the process object cockpit.spawn(cloneArgs, { pty: true, ... }) starts
CloneProc ==
    [argv |-> cloneArgs(connectionName, name, newVmName, useReflink, fsInfo),
     superuser |-> CloneSuperuser(connectionName),
     out |-> <<>>]

\* function onClone()
onClone ==
    IF ~isObjectEmpty(validateParams(newVmName))
    THEN /\ inProgress' = FALSE
         /\ lastOp' = Op("reject", <<>>)
         /\ UNCHANGED clones
    ELSE /\ BagCardinality(clones) < MaxInFlight
         /\ inProgress' = TRUE
         /\ clones' = Started(clones, CloneProc)
         /\ lastOp' = Other

\* isDisabled of the Clone button
CloneDisabled == inProgress \/ ~isObjectEmpty(validateParams(newVmName))

\* Button onClick={onClone}
ClickClone ==
    /\ Interactive
    /\ ~CloneDisabled
    /\ onClone
    /\ UNCHANGED <<props, newVmName, virtCloneOutput, error, probeVars,
                   closeCalls>>

\* Form onSubmit (Enter in the name field): e.preventDefault(); onClone()
SubmitForm ==
    /\ Interactive
    /\ onClone
    /\ UNCHANGED <<props, newVmName, virtCloneOutput, error, probeVars,
                   closeCalls>>

\* Cancel button and Modal onClose: Dialogs.close
CloseDialog ==
    /\ Interactive
    /\ closeCalls' = closeCalls + 1
    /\ lastOp' = Other
    /\ UNCHANGED <<props, uiVars, probeVars, clones>>

-----------------------------------------------------------------------------
(* The virt-clone processes *)

\* what the stream callback stores when a chunk arrives
Streamed(shown, chunk) == chunk

\* .stream(setVirtCloneOutput): process proc writes its next chunk
StreamChunk(proc) ==
    /\ BagIn(proc, clones)
    /\ Len(proc.out) < MaxChunks
    /\ LET chunk == Chunk(Len(proc.out) + 1) IN
       /\ virtCloneOutput' = Streamed(virtCloneOutput, chunk)
       /\ clones' = Started(Exited(clones, proc),
                            [proc EXCEPT !.out = @ \o chunk])
    /\ lastOp' = Other
    /\ UNCHANGED <<props, newVmName, inProgress, error, probeVars, closeCalls>>

\* .then(Dialogs.close, ...): process proc exits with status 0
CloneOk(proc) ==
    /\ BagIn(proc, clones)
    /\ clones' = Exited(clones, proc)
    /\ closeCalls' = closeCalls + 1
    /\ lastOp' = Op("cloneOk", <<>>)
    /\ UNCHANGED <<props, uiVars, probeVars>>

\* .then(..., () => { ... }): process proc fails
CloneFail(proc) ==
    /\ BagIn(proc, clones)
    /\ clones' = Exited(clones, proc)
    /\ inProgress' = FALSE
    /\ error' = DialogErrorOf(name)
    /\ lastOp' = Op("cloneFail", proc.out)
    /\ UNCHANGED <<props, newVmName, virtCloneOutput, probeVars, closeCalls>>

-----------------------------------------------------------------------------

\* the dialog: the probe, the form and the virt-clone processes
Next ==
    \/ ProbeEffect
    \/ \E out \in DomblklistOutputs : DomblklistOk(out)
    \/ DomblklistFail
    \/ \E fsOut \in DfOutputs : DfOk(fsOut)
    \/ DfFail
    \/ CpOk
    \/ CpFail
    \/ RmExit("ok")
    \/ \E value \in TypedNames : SetNewVmName(value)
    \/ \E checked \in BOOLEAN : ToggleReflink(checked)
    \/ ClickClone
    \/ SubmitForm
    \/ CloseDialog
    \/ \E proc \in BagToSet(clones) : StreamChunk(proc)
    \/ \E proc \in BagToSet(clones) : CloneOk(proc)
    \/ \E proc \in BagToSet(clones) : CloneFail(proc)

Spec == Init /\ [][Next]_vars

\* the probe on its own, on more command outputs: the user only toggles
\* the checkbox or closes the dialog
ProbeNext ==
    \/ ProbeEffect
    \/ \E out \in MoreDomblklistOutputs : DomblklistOk(out)
    \/ DomblklistFail
    \/ \E fsOut \in MoreDfOutputs : DfOk(fsOut)
    \/ DfFail
    \/ CpOk
    \/ CpFail
    \/ \E st \in {"ok", "failed"} : RmExit(st)
    \/ \E checked \in BOOLEAN : ToggleReflink(checked)
    \/ CloseDialog

SpecProbe == Init /\ [][ProbeNext]_vars

\* each command of the probe chain settles, one way or the other
DomblklistSettles ==
    (\E out \in MoreDomblklistOutputs : DomblklistOk(out)) \/ DomblklistFail
DfSettles == (\E fsOut \in MoreDfOutputs : DfOk(fsOut)) \/ DfFail
CpSettles == CpOk \/ CpFail

\* the probe when the effect runs and every external command it awaits
\* eventually succeeds or fails
SpecProbeFair ==
    /\ Init
    /\ [][ProbeNext]_vars
    /\ WF_vars(ProbeEffect)
    /\ WF_vars(DomblklistSettles)
    /\ WF_vars(DfSettles)
    /\ WF_vars(CpSettles)

\* the disk locator on every short disk-list output: the state in which
\* virsh domblklist is awaited, and the handler of its output
LocatorInit ==
    /\ name \in VmNames
    /\ connectionName = "session"
    /\ newVmName = name \o DashClone
    /\ inProgress = FALSE
    /\ virtCloneOutput = <<>>
    /\ error = <<>>
    /\ fsInfo = [hasReflink |-> FALSE, fsType |-> <<>>]
    /\ useReflink = FALSE
    /\ isCheckingFs = TRUE
    /\ pc = "domblklist"
    /\ output = <<>>
    /\ diskPath = <<>>
    /\ fsOutput = <<>>
    /\ cmds = <<DomblklistCmd(connectionName, name)>>
    /\ clones = EmptyBag
    /\ closeCalls = 0
    /\ lastOp = Other

\* (the guard is repeated outside the quantifier, so that the outputs are
\* enumerated only in the states where the handler can run)
LocatorNext ==
    /\ pc = "domblklist"
    /\ \E out \in Strings : DomblklistOk(out)

SpecLocator == LocatorInit /\ [][LocatorNext]_vars

-----------------------------------------------------------------------------
(* Properties *)

\* a command line has the literal token among its arguments
HasArg(argv, token) == \E k \in DOMAIN argv : argv[k] = Lit(token)

\* sub occurs in s as a run of consecutive elements
Contains(s, sub) ==
    \E i \in 1..(Len(s) - Len(sub) + 1) : SubSeq(s, i, i + Len(sub) - 1) = sub

\* the step started a virt-clone process, and the process it started
CloneStarted == BagCardinality(clones') > BagCardinality(clones)
NewClone == CHOOSE p \in BagToSet(clones') : CopiesIn(p, clones') > CopiesIn(p, clones)

\* the probe's process number k has been spawned as command cmd
Issued(k, cmd) == Len(cmds) >= k /\ cmds[k].argv[1] = Lit(cmd)

\* C1: no two clone commands run concurrently in one dialog - at most one
\* virt-clone process is in flight in every reachable state.
C1_NoConcurrentClones == BagCardinality(clones) <= 1

\* C2: a virt-clone command is spawned only with a name whose trimmed value
\* is non-empty, and a step in which onClone rejects the submission spawns
\* no process, neither a virt-clone nor a probe command.
C2_EmptyNameNeverCloned ==
    [][ /\ \A p \in BagToSet(clones') : Trim(p.argv[7]) # <<>>
        /\ CloneStarted => Trim(newVmName) # <<>>
        /\ lastOp'.op = "reject"
               => Trim(newVmName) = <<>> /\ clones' = clones /\ cmds' = cmds
      ]_vars

\* C2 witness: a submission with the whitespace-only name " " has just been
\* rejected.
C2_Witness ==
    /\ lastOp.op = "reject"
    /\ newVmName = <<" ">>
    /\ clones = EmptyBag

\* C3: a clone command is started only after the filesystem probe has
\* completed - every step that starts a virt-clone process is taken in a
\* state where isCheckingFs is false.
C3_CloneOnlyAfterProbe == [][CloneStarted => ~isCheckingFs]_vars

\* C4: when a clone command succeeds the dialog is closed; when it fails the
\* handler leaves the dialog as it is (no Dialogs.close call), sets the error
\* to a message containing the source VM's name, clears inProgress, and if
\* the dialog is open and the name valid the Clone button is enabled again.
C4_SuccessClosesFailureReopensForm ==
    [][ /\ lastOp'.op = "cloneOk" => closeCalls' = closeCalls + 1 /\ ~IsOpen'
        /\ lastOp'.op = "cloneFail" =>
              /\ closeCalls' = closeCalls
              /\ Len(error') = 1
              /\ error'[1][1] = "dialogError"
              /\ Contains(error'[1][2], name)
              /\ ~inProgress'
              /\ (IsOpen' /\ Trim(newVmName') # <<>> => ~CloneDisabled')
      ]_vars

\* C4 witness: a clone has failed in an open dialog, the error is shown, and
\* the form has been submitted again: a new virt-clone process is in flight.
C4_Witness ==
    /\ IsOpen
    /\ error # <<>>
    /\ inProgress
    /\ BagCardinality(clones) = 1
    /\ lastOp.op = "other"

\* C5: after a failed clone the detail shown with the error message
\* (virtCloneOutput) is the concatenation of all chunks the failed command
\* wrote.
C5_DetailIsCombinedOutput ==
    lastOp.op = "cloneFail" /\ lastOp.out # <<>> => virtCloneOutput = lastOp.out

\* C6: every clone command carries exactly one of the two copy flags:
\* --reflink if and only if useReflink and fsInfo.hasReflink both hold when
\* the form is submitted, and --auto-clone otherwise, as in any submission
\* made while the probe is still running.
C6_ExactlyOneCopyFlag ==
    [][ CloneStarted =>
          LET argv == NewClone.argv
              flags == {k \in DOMAIN argv :
                          argv[k] \in {Lit("--reflink"), Lit("--auto-clone")}}
          IN /\ Cardinality(flags) = 1
             /\ HasArg(argv, "--reflink") <=> (useReflink /\ fsInfo.hasReflink)
             /\ HasArg(argv, "--auto-clone") <=> ~(useReflink /\ fsInfo.hasReflink)
             /\ isCheckingFs => HasArg(argv, "--auto-clone")
      ]_vars

\* C6 witness: the probe found reflink support, the user has unchecked the
\* checkbox, and the virt-clone process in flight carries --auto-clone.
C6_Witness ==
    /\ fsInfo.hasReflink
    /\ ~useReflink
    /\ inProgress
    /\ \E p \in BagToSet(clones) : HasArg(p.argv, "--auto-clone")

\* the filesystem type the df output shows on its second line, if any
DetectedCow ==
    /\ Issued(2, "df")
    /\ cmds[2].status = "ok"
    /\ LET fsLines == SplitLines(fsOutput) IN
       /\ Len(fsLines) >= 2
       /\ Trim(fsLines[2]) \in {XFS, BTRFS}

\* C7: the trial copy (cp --reflink=always) is issued if and only if the
\* df query succeeded and the type it shows is exactly "xfs" or "btrfs";
\* after any other type, an empty type, no disk, or a failed query, the
\* probe ends without a cp among its commands.
C7_TrialCopyIffCowFs ==
    /\ Issued(3, "cp") <=> DetectedCow
    /\ \A k \in DOMAIN cmds : cmds[k].argv[1] = Lit("cp") => k = 3

\* C7 witness: df reported btrfs and the trial copy is running.
C7_Witness ==
    /\ pc = "cp"
    /\ Issued(3, "cp")
    /\ cmds[3].status = "running"
    /\ Trim(SplitLines(fsOutput)[2]) = BTRFS

\* C8: the step in which the trial copy settles records hasReflink = true,
\* the detected type and useReflink = true when the copy succeeded, and
\* hasReflink = false, the detected type and useReflink = false when it
\* failed.
C8_TrialCopyOutcomeRecorded ==
    [][ pc = "cp" /\ pc' = "done" =>
          LET detected == Trim(SplitLines(fsOutput)[2]) IN
          /\ cmds'[3].status \in {"ok", "failed"}
          /\ cmds'[3].status = "ok" =>
                /\ fsInfo' = [hasReflink |-> TRUE, fsType |-> detected]
                /\ useReflink'
          /\ cmds'[3].status = "failed" =>
                /\ fsInfo' = [hasReflink |-> FALSE, fsType |-> detected]
                /\ ~useReflink'
      ]_vars

\* C8 witness: the trial copy on xfs failed and the probe is over.
C8_Witness ==
    /\ pc = "done"
    /\ Issued(3, "cp")
    /\ cmds[3].status = "failed"
    /\ fsInfo = [hasReflink |-> FALSE, fsType |-> XFS]
    /\ ~useReflink

\* C9: every trial copy is followed by the removal of the .test file: once
\* the probe is over, if cp was issued then rm -f diskPath.test was issued.
C9_TrialCopyAlwaysCleaned ==
    pc = "done" /\ Issued(3, "cp") =>
        /\ Issued(4, "rm")
        /\ cmds[4].argv[3] = diskPath \o DotTest

\* the whitespace-separated fields of a row: field k runs from the k-th
\* position where a non-blank follows a blank (or starts the row) to the
\* last non-blank before the next blank
FieldStarts(row) ==
    {i \in 1..Len(row) : row[i] \notin WhiteSpace
                         /\ (i = 1 \/ row[i - 1] \in WhiteSpace)}

FieldFrom(row, i) ==
    LET blanks == {j \in i..Len(row) : row[j] \in WhiteSpace}
        stop == IF blanks = {} THEN Len(row) + 1
                ELSE CHOOSE j \in blanks : \A m \in blanks : j <= m
    IN SubSeq(row, i, stop - 1)

Field(row, k) ==
    LET starts == FieldStarts(row)
        i == CHOOSE j \in starts : Cardinality({m \in starts : m < j}) = k - 1
    IN FieldFrom(row, i)

\* a data row names a disk: it has a second field, which is not "-"
NamesDisk(row) == Cardinality(FieldStarts(row)) >= 2 /\ Field(row, 2) # <<"-">>

\* the path the locator is to return for a disk-list output
ExpectedDiskPath(out) ==
    LET rows == SplitLines(out)
        good == {r \in 2..Len(rows) : NamesDisk(rows[r])}
    IN IF good = {} THEN <<>>
       ELSE Field(rows[CHOOSE r \in good : \A m \in good : r <= m], 2)

\* C10: for any disk-list output, the disk locator returns the second
\* whitespace-separated field of the first row after the header row whose
\* second field is present and not "-", and nothing when there is no such
\* row; the header row is never used.
C10_LocatorReturnsFirstDisk ==
    pc # "domblklist" =>
        /\ diskPath = ExpectedDiskPath(output)
        /\ cmds[1].status = "ok"
        /\ (diskPath = <<>>) <=> (pc = "done")

\* C10 witness: the first data row has the placeholder "-", the second a
\* path, and the locator has returned that path.
C10_Witness ==
    /\ pc = "df"
    /\ output = <<NL, "a", " ", "-", NL, "-", " ", "a">>
    /\ diskPath = <<"a">>

DefaultFsInfo == [hasReflink |-> FALSE, fsType |-> <<>>]

\* the probe has ended on a failed disk-list query, on no disk, or on a
\* failed filesystem-type query
ProbeGaveUp ==
    /\ pc = "done"
    /\ \/ cmds[1].status = "failed"
       \/ Len(cmds) = 1 /\ cmds[1].status = "ok" /\ diskPath = <<>>
       \/ Issued(2, "df") /\ cmds[2].status = "failed"

\* C11: if the disk-list query or the filesystem-type query fails, or no
\* disk is found, fsInfo stays {hasReflink: false, fsType: ''} and useReflink
\* stays false, and the step that ends the probe calls neither Dialogs.close
\* nor dialogErrorSet.
C11_FailedProbeKeepsDefaults ==
    [][ /\ ProbeGaveUp' => fsInfo' = DefaultFsInfo /\ ~useReflink'
        /\ ProbeGaveUp' /\ pc # "done" =>
              /\ closeCalls' = closeCalls
              /\ error' = error
              /\ error' = <<>>
              /\ fsInfo' = fsInfo
              /\ useReflink' = useReflink
      ]_vars

\* C11 witness: df has failed, the probe is over and nothing was recorded.
C11_Witness ==
    /\ ProbeGaveUp
    /\ Issued(2, "df")
    /\ cmds[2].status = "failed"
    /\ fsInfo = DefaultFsInfo
    /\ IsOpen

\* C12: provided every external command eventually succeeds or fails, the
\* probe terminates: isCheckingFs eventually becomes false and stays false.
C12_ProbeTerminates == <>[](~isCheckingFs /\ pc = "done")

\* C12 witness: the probe is over after a failed trial copy, with
\* isCheckingFs false.
C12_Witness ==
    /\ ~isCheckingFs
    /\ pc = "done"
    /\ Issued(3, "cp")
    /\ cmds[3].status = "failed"

\* C13: once isCheckingFs is false it stays false and fsInfo never changes
\* again, and useReflink changes only in a step that is the user's toggling
\* of the checkbox.
C13_ProbeResultImmutable ==
    [][ ~isCheckingFs =>
          /\ ~isCheckingFs'
          /\ fsInfo' = fsInfo
          /\ useReflink' # useReflink =>
                /\ IsOpen /\ fsInfo.hasReflink
                /\ UNCHANGED <<props, uiVars, fsInfo, isCheckingFs, pc, output,
                               diskPath, fsOutput, cmds, clones, closeCalls>>
      ]_vars

\* C13 witness: the probe found reflink support and the user has since
\* unchecked the checkbox.
C13_Witness ==
    /\ ~isCheckingFs
    /\ fsInfo.hasReflink
    /\ ~useReflink
    /\ clones = EmptyBag

\* the elevation a command requests fits the connection scope
ElevationFits(proc) ==
    /\ connectionName = "system" => proc.superuser = "try"
    /\ connectionName # "system" => proc.superuser \in {"false", "unset"}

\* C14: every command the dialog issues (disk-list, filesystem-type, trial
\* copy, rm, virt-clone) requests superuser "try" when the connection is
\* "system" and requests no elevation when it is the per-user one.
C14_ElevationFollowsScope ==
    /\ \A k \in DOMAIN cmds : ElevationFits(cmds[k])
    /\ \A proc \in BagToSet(clones) : ElevationFits(proc)

\* C14 witness: on the per-user connection all four probe commands have been
\* issued and a virt-clone process is in flight.
C14_Witness ==
    /\ connectionName = "session"
    /\ Issued(4, "rm")
    /\ clones # EmptyBag

\* C15: when the trial copy succeeds the same step records hasReflink = true
\* and ends the probe while rm is still running, and the step in which rm
\* settles, with either status, changes neither fsInfo, useReflink,
\* isCheckingFs nor the error.
C15_CleanupFireAndForget ==
    [][ /\ pc = "cp" /\ cmds'[3].status = "ok" =>
              /\ fsInfo'.hasReflink
              /\ pc' = "done"
              /\ ~isCheckingFs'
              /\ Issued(4, "rm")'
              /\ cmds'[4].status = "running"
        /\ RmRunning /\ ~RmRunning' =>
              /\ cmds'[4].status \in {"ok", "failed"}
              /\ UNCHANGED <<fsInfo, useReflink, isCheckingFs, error,
                             closeCalls, pc>>
      ]_vars

\* C15 witness: rm has failed and the probe result still says reflink is
\* supported.
C15_Witness ==
    /\ Issued(4, "rm")
    /\ cmds[4].status = "failed"
    /\ fsInfo.hasReflink
    /\ useReflink
    /\ error = <<>>

\* C16: the in-progress flag tracks the clone command: whenever a virt-clone
\* process is in flight, inProgress is true.
C16_InProgressTracksClone == clones # EmptyBag => inProgress

\* C17: useReflink implies fsInfo.hasReflink, fsInfo.hasReflink implies that
\* fsInfo.fsType is "xfs" or "btrfs", and a step in which the user changes
\* useReflink starts where the probe is over with hasReflink = true.
C17_ReflinkChoiceNeedsSupport ==
    [][ /\ useReflink' => fsInfo'.hasReflink
        /\ fsInfo'.hasReflink => fsInfo'.fsType \in {XFS, BTRFS}
        /\ useReflink' # useReflink /\ pc' = pc =>
              ~isCheckingFs /\ pc = "done" /\ fsInfo.hasReflink
      ]_vars

\* C17 witness: on btrfs with reflink support the user has unchecked the
\* checkbox.
C17_Witness ==
    /\ pc = "done"
    /\ fsInfo = [hasReflink |-> TRUE, fsType |-> BTRFS]
    /\ ~useReflink

\* C18: the dialog requests its closing at most once: once Dialogs.close has
\* been called, no later step calls it again or sets the error.
C18_ClosedOnce == [][~IsOpen => closeCalls' = closeCalls /\ error' = error]_vars

====
